---- MODULE Spec2Model ----
\* A model of wasabi's TracebackPrinter (src/wasabi/traceback.py).
\* Strings are sequences of one-character strings; an ANSI escape code is a
\* sequence that starts with the element "ESC[" and the reset code is the
\* single element "ESC[0m".
EXTENDS Integers, Sequences, FiniteSets, TLC

VARIABLES NO_UTF8, self, terminal, pc, args, loc, ret, seen, inp, out

vars == <<NO_UTF8, self, terminal, pc, args, loc, ret, seen, inp, out>>

\* ------------------------------------------------------------------ bounds
MaxIndent == 1
MaxTrail == 6
MaxPath == 6
MaxText == 4
MaxHighlight == 2
MaxCount == 3
MaxTexts == 2

\* ------------------------------------------------- Python string helpers
RECURSIVE Repeat(_, _)
Repeat(s, n) == IF n <= 0 THEN <<>> ELSE s \o Repeat(s, n - 1)

RECURSIVE Join(_, _)
Join(sep, list) ==
    IF list = <<>> THEN <<>>
    ELSE IF Len(list) = 1 THEN list[1]
    ELSE list[1] \o sep \o Join(sep, Tail(list))

Whitespace == {" ", "\n", "\t"}

RECURSIVE LStrip(_)
LStrip(s) ==
    IF s # <<>> /\ Head(s) \in Whitespace THEN LStrip(Tail(s)) ELSE s

RECURSIVE RStrip(_)
RStrip(s) ==
    IF s # <<>> /\ s[Len(s)] \in Whitespace
    THEN RStrip(SubSeq(s, 1, Len(s) - 1)) ELSE s

Strip(s) == RStrip(LStrip(s))

EndsWith(s, suffix) ==
    /\ Len(suffix) <= Len(s)
    /\ SubSeq(s, Len(s) - Len(suffix) + 1, Len(s)) = suffix

\* s occurs in t at the 1-based position p
OccursAt(s, t, p) ==
    /\ p >= 1
    /\ p + Len(s) - 1 <= Len(t)
    /\ SubSeq(t, p, p + Len(s) - 1) = s

Occurrences(s, t) == {p \in 1..(Len(t) + 1) : OccursAt(s, t, p)}

Contains(t, s) == Occurrences(s, t) # {}

Max(S) == CHOOSE x \in S : \A y \in S : y <= x

\* seq[start:stop] with Python's handling of negative and out-of-range indices
PySlice(seq, start, stop) ==
    LET n == Len(seq)
        norm(k) == IF k < 0 THEN (IF n + k < 0 THEN 0 ELSE n + k)
                   ELSE (IF k > n THEN n ELSE k)
    IN SubSeq(seq, norm(start) + 1, norm(stop))

\* text.rsplit(sep, 1)[1] when sep occurs in text
RSplitLast(text, sep) ==
    LET p == Max(Occurrences(sep, text))
    IN SubSeq(text, p + Len(sep), Len(text))

\* old.replace(sub, new): leftmost occurrences, scanned left to right,
\* the scan resuming after each replaced occurrence
RECURSIVE Replace(_, _, _)
Replace(text, sub, new) ==
    IF text = <<>> THEN <<>>
    ELSE IF OccursAt(sub, text, 1)
         THEN new \o Replace(SubSeq(text, Len(sub) + 1, Len(text)), sub, new)
         ELSE <<Head(text)>> \o Replace(Tail(text), sub, new)

\* ------------------------------------------------------ wasabi.util (leaf)
ESC == "ESC["
RESET == "ESC[0m"

Digit(d) == CASE d = 0 -> "0" [] d = 1 -> "1" [] d = 2 -> "2" [] d = 3 -> "3"
              [] d = 4 -> "4" [] d = 5 -> "5" [] d = 6 -> "6" [] d = 7 -> "7"
              [] d = 8 -> "8" [] d = 9 -> "9"

RECURSIVE to_string(_)
to_string(n) ==
    IF n < 10 THEN <<Digit(n)>> ELSE to_string(n \div 10) \o <<Digit(n % 10)>>

\* color(text, fg=None, bold=False, underline=False); fg = "" stands for None
Color(text, fg, bold, underline) ==
    LET styles == (IF bold THEN <<<<"1">>>> ELSE <<>>)
                  \o (IF underline THEN <<<<"4">>>> ELSE <<>>)
                  \o (IF fg # "" THEN <<<<"38;5;", fg>>>> ELSE <<>>)
    IN <<ESC>> \o Join(<<";">>, styles) \o <<"m">> \o text \o <<RESET>>

\* ------------------------------------------------------------- constants
\* The box-drawing characters are written by name: "CORNER" is U+2514,
\* "TEE" is U+251C and "DASH" is U+2500.
LINE_EDGE == IF ~NO_UTF8 THEN <<"CORNER", "DASH">> ELSE <<"|", "_">>
LINE_FORK == IF ~NO_UTF8 THEN <<"TEE", "DASH">> ELSE <<"|", "_", "_">>
LINE_PATH == IF ~NO_UTF8 THEN <<"DASH", "DASH">> ELSE <<"_", "_">>

\* ---------------------------------------------------- TracebackPrinter
None == <<>>

\* __init__: the configuration record; ansi is what supports_ansi() returns
\* at construction. tb_base = None (or "") leaves self.tb_base = None.
TracebackPrinter(color_error, color_tb, color_highlight, indent, tb_base, tb_exclude, ansi) ==
    [color_error |-> color_error,
     color_tb |-> color_tb,
     color_highlight |-> color_highlight,
     indent |-> Repeat(<<" ">>, indent),
     tb_base |-> IF tb_base # None THEN <<"/">> \o tb_base \o <<"/">> ELSE None,
     tb_exclude |-> tb_exclude,
     supports_ansi |-> ansi]

\* (SupportsAnsiNow: the terminal is asked again at every use)
SupportsAnsiNow == terminal

\* the flag every method reads: cached by __init__, not asked again
SupportsAnsi == self.supports_ansi

\* record[0].endswith(self.tb_exclude), tb_exclude a tuple of suffixes
Excluded(path) ==
    \E k \in DOMAIN self.tb_exclude : EndsWith(path, self.tb_exclude[k])

\* lines 102-105; highlight = None stands for the falsy values (False, None,
\* ""); to_string of a string is that string
\* (HighlightTextFirst: only the first occurrence is replaced)
HighlightTextFirst(text, highlight) ==
    IF highlight # None /\ SupportsAnsi /\ Contains(text, highlight)
    THEN LET p == CHOOSE q \in Occurrences(highlight, text) :
                      \A r \in Occurrences(highlight, text) : q <= r
         IN SubSeq(text, 1, p - 1)
            \o Color(highlight, self.color_highlight, FALSE, FALSE)
            \o SubSeq(text, p + Len(highlight), Len(text))
    ELSE text

HighlightText(text, highlight) ==
    IF highlight # None /\ SupportsAnsi
    THEN Replace(text, highlight, Color(highlight, self.color_highlight, FALSE, FALSE))
    ELSE text

_format_user_error(text, i, highlight) ==
    LET spacing0 == Repeat(<<" ", " ">>, i) \o <<" ", ">", ">", ">">>
        spacing == IF SupportsAnsi
                   THEN Color(spacing0, self.color_error, FALSE, FALSE)
                   ELSE spacing0
    IN <<"\n">> \o self.indent \o <<" ", " ">> \o spacing \o <<" ">>
       \o HighlightText(text, highlight)

\* (ConnectorReversed: the path segments counted from the last frame)
ConnectorReversed(i, count) ==
    (IF i = count - 1 THEN LINE_EDGE ELSE LINE_FORK)
    \o Repeat(LINE_PATH, count - 1 - i)

\* line 81: the tree connector of frame i out of count
Connector(i, count) ==
    (IF i = count - 1 THEN LINE_EDGE ELSE LINE_FORK) \o Repeat(LINE_PATH, i)

\* (ShortenPathFirst: split at the first occurrence of the marker)
ShortenPathFirst(path) ==
    IF self.tb_base # None /\ Contains(path, self.tb_base)
    THEN LET p == CHOOSE q \in Occurrences(self.tb_base, path) :
                      \A r \in Occurrences(self.tb_base, path) : q <= r
         IN SubSeq(path, p + Len(self.tb_base), Len(path))
    ELSE path

\* lines 82-83: the path relative to the base directory
ShortenPath(path) ==
    IF self.tb_base # None /\ Contains(path, self.tb_base)
    THEN RSplitLast(path, self.tb_base)
    ELSE path

\* (FrameTextAll: every frame gets its source text)
FrameTextAll(text, i, count, highlight) == _format_user_error(text, i, highlight)

\* line 84: the trailing text of frame i
FrameText(text, i, count, highlight) ==
    IF i = count - 1 THEN _format_user_error(text, i, highlight) ELSE <<>>

\* lines 86-87: the function name, bold
FrameFn(fn) == IF SupportsAnsi THEN Color(fn, "", TRUE, FALSE) ELSE fn

\* (FramePathAlways: the path is underlined whatever the flag says)
FramePathAlways(path) == Color(path, "", FALSE, TRUE)

\* line 88: the path, underlined
FramePath(path) == IF SupportsAnsi THEN Color(path, "", FALSE, TRUE) ELSE path

\* _format_traceback(path, line, fn, text, i, count, highlight)
_format_traceback(path, line, fn, text, i, count, highlight) ==
    LET indent == Connector(i, count)
        path1 == ShortenPath(path)
        text1 == FrameText(text, i, count, highlight)
        line1 == to_string(line)
        fn2 == FrameFn(fn)
        path2 == FramePath(path1)
    IN self.indent \o indent \o <<" ">> \o fn2 \o <<" ", "[">> \o line1
       \o <<"]", " ", "i", "n", " ">> \o path2 \o text1

\* line 65: the frames that are not excluded, in their order
FilterTb(tb) == SelectSeq(tb, LAMBDA record : ~Excluded(record.path))

\* (TbRangeDropOne: only the last frame is dropped)
TbRangeDropOne(tb) == PySlice(FilterTb(tb), -5, -1)

\* (TbRangeSliceFirst: the window is taken before the frames are filtered)
TbRangeSliceFirst(tb) ==
    SelectSeq(PySlice(tb, -5, -2), LAMBDA record : ~Excluded(record.path))

\* line 66: tb[-5:-2] of the filtered frames
TbRange(tb) == PySlice(FilterTb(tb), -5, -2)

\* lines 67-70: one formatted line per selected frame
TbList(tb, highlight) ==
    LET tb_range == TbRange(tb)
    IN [k \in 1..Len(tb_range) |->
          _format_traceback(tb_range[k].path, tb_range[k].line, tb_range[k].fn,
                            tb_range[k].text, k - 1, Len(tb_range), highlight)]

TracebackTitle == <<"T", "r", "a", "c", "e", "b", "a", "c", "k", ":">>

\* _get_traceback(tb, highlight)
_get_traceback(tb, highlight) ==
    LET tb_data == Strip(Join(<<"\n">>, TbList(tb, highlight)))
        title == IF SupportsAnsi
                 THEN Color(TracebackTitle, self.color_tb, TRUE, FALSE)
                 ELSE TracebackTitle
    IN <<"\n", "\n">> \o self.indent \o title \o <<"\n">> \o self.indent \o tb_data

\* lines 55-56 of __call__
CallTitle(title) ==
    IF SupportsAnsi THEN Color(title, self.color_error, TRUE, FALSE) ELSE title

\* (CallInfoNoIndent: the body lines are joined without the indent)
CallInfoNoIndent(texts) ==
    IF texts # <<>> THEN <<"\n">> \o Join(<<"\n">>, texts) ELSE <<>>

\* line 57 of __call__
CallInfo(texts) ==
    IF texts # <<>>
    THEN <<"\n">> \o Join(<<"\n">>, [k \in 1..Len(texts) |-> self.indent \o texts[k]])
    ELSE <<>>

\* (CallTbIfFrames: the section is left out when no frame is selected)
CallTbIfFrames(tb, highlight) ==
    IF tb # None /\ TbRange(tb) # <<>> THEN _get_traceback(tb, highlight) ELSE <<>>

\* line 58 of __call__; tb = None stands for no trail (None or empty)
CallTb(tb, highlight) ==
    IF tb # None THEN _get_traceback(tb, highlight) ELSE <<>>

\* line 59 of __call__
CallMsg(title, info, tb) ==
    <<"\n", "\n">> \o self.indent \o title \o info \o tb \o <<"\n">>

\* __call__(title, *texts, highlight=..., tb=...)
__call__(title, texts, highlight, tb) ==
    CallMsg(CallTitle(title), CallInfo(texts), CallTb(tb, highlight))

\* ------------------------------------------------------------ the inputs
RECURSIVE SeqsUpTo(_, _)
SeqsUpTo(S, n) ==
    IF n = 0 THEN {<<>>}
    ELSE LET shorter == SeqsUpTo(S, n - 1)
         IN shorter \cup {Append(q, x) : q \in {r \in shorter : Len(r) = n - 1}, x \in S}

Threads == {1, 2}

\* the printers a program can construct; the flag is the terminal's answer
Printers(ansi) ==
    {TracebackPrinter("red", "blue", "yellow", n, base, excl, ansi) :
        n \in 0..MaxIndent,
        base \in {None, <<"m">>},
        excl \in {<<>>, <<<<"x">>>>, <<<<"y">>, <<"/", "x">>>>}}

\* A stack of n frames, oldest first, as traceback.extract_stack() gives it:
\* frame k is at line 8 + k of the file its kind names.
FrameOf(kind, k) ==
    [path |-> IF kind = "lib" THEN <<"/", "m", "/", "x">> ELSE <<"/", "m", "/", "a">>,
     line |-> 8 + k,
     fn |-> IF kind = "lib" THEN <<"g">> ELSE <<"f">>,
     text |-> IF k % 2 = 1 THEN <<"a", "b", "a">> ELSE <<"a", " ">>]

Trails ==
    {[k \in 1..Len(kinds) |-> FrameOf(kinds[k], k)] :
        kinds \in SeqsUpTo({"app", "lib"}, MaxTrail) \ {<<>>}}

Titles == {<<"E">>}
BodyTexts == SeqsUpTo({<<"x">>, <<"y">>}, MaxTexts)
Highlights == {None, <<"a">>}

\* the requests of one call: every body with no trail, short bodies with one
Requests ==
    {r \in [title : Titles, texts : BodyTexts, highlight : Highlights,
            tb : Trails \cup {None}] : r.tb = None \/ Len(r.texts) <= 1}

NoOut == [done |-> FALSE]

InitEnv ==
    /\ NO_UTF8 \in BOOLEAN
    /\ terminal \in BOOLEAN
    /\ self \in Printers(terminal)

InitThreads ==
    /\ pc = [t \in Threads |-> "idle"]
    /\ args = [t \in Threads |-> [title |-> <<>>, texts |-> <<>>, highlight |-> None, tb |-> None]]
    /\ loc = [t \in Threads |-> [title |-> <<>>, info |-> <<>>]]
    /\ ret = [t \in Threads |-> <<>>]
    /\ seen = {}

\* ------------------------------------------- one call of the printer
InitFormat ==
    /\ InitEnv
    /\ InitThreads
    /\ inp \in Requests
    /\ out = NoOut

\* __call__ on the drawn request; the locals of _get_traceback are kept
Format ==
    /\ ~out.done
    /\ out' = [done |-> TRUE,
               msg |-> __call__(inp.title, inp.texts, inp.highlight, inp.tb),
               called |-> inp.tb # None,
               tb |-> FilterTb(inp.tb),
               tb_range |-> TbRange(inp.tb),
               tb_list |-> TbList(inp.tb, inp.highlight)]
    /\ UNCHANGED <<NO_UTF8, self, terminal, pc, args, loc, ret, seen, inp>>

NextFormat == Format

SpecFormat == InitFormat /\ [][NextFormat]_vars

\* --------------------------------------- one frame line, for every path
PathPrinters(ansi) ==
    {TracebackPrinter("red", "blue", "yellow", n, base, <<>>, ansi) :
        n \in 0..MaxIndent, base \in {None, <<"m">>}}

InitPath ==
    /\ NO_UTF8 \in BOOLEAN
    /\ terminal \in BOOLEAN
    /\ self \in PathPrinters(terminal)
    /\ InitThreads
    /\ inp \in [path : SeqsUpTo({"/", "m", "a"}, MaxPath) \ {<<>>}, line : {7},
                fn : {<<"f">>}, text : {<<"a">>}, highlight : {None}]
    /\ out = NoOut

\* _format_traceback on the drawn frame, as frame i of count; path is the
\* local of that name after line 83
FormatFrame ==
    /\ ~out.done
    /\ \E count \in 1..MaxCount : \E i \in 0..(count - 1) :
          out' = [done |-> TRUE, i |-> i, count |-> count,
                  path |-> ShortenPath(inp.path),
                  line |-> _format_traceback(inp.path, inp.line, inp.fn, inp.text,
                                             i, count, inp.highlight)]
    /\ UNCHANGED <<NO_UTF8, self, terminal, pc, args, loc, ret, seen, inp>>

NextPath == FormatFrame

SpecPath == InitPath /\ [][NextPath]_vars

\* ------------------------------- the highlight sub-step, for every text
HighlightPrinters(ansi) ==
    {TracebackPrinter("red", "blue", "yellow", n, None, <<>>, ansi) :
        n \in 0..MaxIndent}

InitHighlight ==
    /\ NO_UTF8 \in BOOLEAN
    /\ terminal \in BOOLEAN
    /\ self \in HighlightPrinters(terminal)
    /\ InitThreads
    /\ inp \in [text : SeqsUpTo({"a", "b"}, MaxText),
                highlight : SeqsUpTo({"a", "b"}, MaxHighlight)]
    /\ out = NoOut

\* _format_user_error on the drawn source text, as the text of frame i
FormatUserError ==
    /\ ~out.done
    /\ \E i \in 0..(MaxCount - 1) :
          out' = [done |-> TRUE, i |-> i,
                  text |-> _format_user_error(inp.text, i, inp.highlight)]
    /\ UNCHANGED <<NO_UTF8, self, terminal, pc, args, loc, ret, seen, inp>>

NextHighlight == FormatUserError

SpecHighlight == InitHighlight /\ [][NextHighlight]_vars

\* ------------------------------ threads calling one printer, a terminal
ShortTrail == [k \in 1..(MaxCount + 1) |-> FrameOf("app", k)]

ThreadRequests ==
    [title : Titles, texts : {<<<<"x">>>>}, highlight : {<<"a">>},
     tb : {None, ShortTrail}]

ThreadPrinters(ansi) ==
    {TracebackPrinter("red", "blue", "yellow", n, <<"m">>, <<<<"x">>>>, ansi) :
        n \in 0..MaxIndent}

Init ==
    /\ NO_UTF8 \in BOOLEAN
    /\ terminal \in BOOLEAN
    /\ self \in ThreadPrinters(terminal)
    /\ InitThreads
    /\ inp = [title |-> <<>>]
    /\ out = NoOut

\* lines 53-57 of __call__: the arguments are bound, title and info built
Begin(t) ==
    /\ pc[t] = "idle"
    /\ \E r \in ThreadRequests :
          /\ args' = [args EXCEPT ![t] = r]
          /\ loc' = [loc EXCEPT ![t] = [title |-> CallTitle(r.title),
                                        info |-> CallInfo(r.texts)]]
    /\ pc' = [pc EXCEPT ![t] = "line58"]
    /\ UNCHANGED <<NO_UTF8, self, terminal, ret, seen, inp, out>>

\* lines 58-60 of __call__: the trail is rendered, the message returned
Finish(t) ==
    /\ pc[t] = "line58"
    /\ LET msg == CallMsg(loc[t].title, loc[t].info,
                          CallTb(args[t].tb, args[t].highlight))
       IN /\ ret' = [ret EXCEPT ![t] = msg]
          /\ seen' = seen \cup {[request |-> args[t], msg |-> msg,
                                  terminal |-> terminal]}
    /\ pc' = [pc EXCEPT ![t] = "idle"]
    /\ UNCHANGED <<NO_UTF8, self, terminal, args, loc, inp, out>>

\* the output stream stops or starts supporting ANSI codes
TerminalChange ==
    /\ terminal' = ~terminal
    /\ UNCHANGED <<NO_UTF8, self, pc, args, loc, ret, seen, inp, out>>

Next ==
    \/ \E t \in Threads : Begin(t)
    \/ \E t \in Threads : Finish(t)
    \/ TerminalChange

Spec == Init /\ [][Next]_vars

\* ============================================================ properties
\* helpers of the properties
IndexOf(x, s) == CHOOSE k \in 1..Len(s) : s[k] = x /\ \A j \in 1..(k - 1) : s[j] # x

\* s without its escape codes
RECURSIVE Uncolored(_)
Uncolored(s) ==
    IF s = <<>> THEN <<>>
    ELSE IF Head(s) = RESET THEN Uncolored(Tail(s))
    ELSE IF Head(s) = ESC THEN Uncolored(SubSeq(s, IndexOf("m", s) + 1, Len(s)))
    ELSE <<Head(s)>> \o Uncolored(Tail(s))

RECURSIVE Flatten(_)
Flatten(list) == IF list = <<>> THEN <<>> ELSE Head(list) \o Flatten(Tail(list))

CountOf(S, s) == Cardinality({k \in 1..Len(s) : s[k] \in S})

StartsWith(s, prefix) ==
    Len(prefix) <= Len(s) /\ SubSeq(s, 1, Len(prefix)) = prefix

IsExcludedPath(path) ==
    \E k \in 1..Len(self.tb_exclude) :
        LET suf == self.tb_exclude[k]
        IN /\ Len(suf) <= Len(path)
           /\ \A j \in 1..Len(suf) : path[Len(path) - Len(suf) + j] = suf[j]

\* the positions of inp.tb whose frame is not excluded, in increasing order
KeptPositions == {k \in 1..Len(inp.tb) : ~IsExcludedPath(inp.tb[k].path)}

NthKept(n) ==
    CHOOSE k \in KeptPositions : Cardinality({j \in KeptPositions : j <= k}) = n

WindowSize(L) ==
    IF L - 2 <= 0 THEN 0 ELSE IF L - 2 >= 3 THEN 3 ELSE L - 2

WindowStart(L) == IF L - 5 > 0 THEN L - 5 ELSE 0

FirstGlyphs == {"CORNER", "TEE", "|"}

\* C1: a non-empty trail whose filtering leaves L frames is rendered as
\* exactly max(0, min(3, L-2)) frames, the filtered frames at positions
\* L-5 .. L-3 (clipped at 0) in input order; the last two filtered frames
\* are not rendered.
C1_Window ==
    (out.done /\ inp.tb # None) =>
        LET L == Cardinality(KeptPositions)
            n == WindowSize(L)
        IN /\ Len(out.tb_range) = n
           /\ Len(out.tb_list) = n
           /\ CountOf(FirstGlyphs, out.msg) = n
           /\ \A k \in 1..n : out.tb_range[k] = inp.tb[NthKept(WindowStart(L) + k)]
           /\ \A k \in 1..n : \A j \in {L - 1, L} :
                 j >= 1 => out.tb_range[k] # inp.tb[NthKept(j)]

\* a trail with six kept frames: the window starts after the first of them
C1_Witness ==
    /\ out.done
    /\ inp.tb # None
    /\ Cardinality(KeptPositions) = 6
    /\ Len(out.tb_range) = 3
    /\ out.tb_range[1] = inp.tb[NthKept(2)]

\* C2: a frame whose path ends with an excluded suffix is never rendered,
\* and it is filtered out before the window is taken: it takes no place in
\* the window and is not one of the two dropped trailing frames.
C2_ExcludedNeverRendered ==
    (out.done /\ inp.tb # None) =>
        LET L == Cardinality(KeptPositions)
        IN /\ \A k \in 1..Len(out.tb_range) : ~IsExcludedPath(out.tb_range[k].path)
           /\ Len(out.tb_range) = WindowSize(L)
           /\ \A k \in 1..Len(out.tb_range) :
                 out.tb_range[k] = inp.tb[NthKept(WindowStart(L) + k)]
           /\ (\A k \in 1..Len(inp.tb) :
                   inp.tb[k].fn = <<"g">> => IsExcludedPath(inp.tb[k].path))
              => CountOf({"g"}, out.msg) = 0

\* excluded frames stand among the last frames of the trail, and three
\* frames are rendered all the same
C2_Witness ==
    /\ out.done
    /\ inp.tb # None
    /\ Len(inp.tb) = MaxTrail
    /\ IsExcludedPath(inp.tb[Len(inp.tb)].path)
    /\ IsExcludedPath(inp.tb[Len(inp.tb) - 3].path)
    /\ Len(out.tb_range) >= 2

\* the rendered tail of frame k of the window, colors removed
PlainTail(k) ==
    <<" ", "i", "n", " ">> \o ShortenPath(out.tb_range[k].path)

PlainMarker(count) == Repeat(<<" ", " ">>, count - 1) \o <<" ", ">", ">", ">">>

\* C3: only the last rendered frame carries the " >>>" marker (after two
\* spaces times count-1) and its source text; every earlier frame is
\* rendered with empty trailing text.
C3_OnlyLastAnnotated ==
    (out.done /\ inp.tb # None) =>
        LET count == Len(out.tb_list)
        IN /\ \A k \in 1..(count - 1) :
                 /\ CountOf({">", "\n"}, out.tb_list[k]) = 0
                 /\ EndsWith(Uncolored(out.tb_list[k]), PlainTail(k))
           /\ count >= 1 =>
                 /\ CountOf({">"}, out.tb_list[count]) = 3
                 /\ EndsWith(Uncolored(out.tb_list[count]),
                             PlainTail(count) \o <<"\n">> \o self.indent \o <<" ", " ">>
                             \o PlainMarker(count) \o <<" ">>
                             \o out.tb_range[count].text)

C3_Witness ==
    /\ out.done
    /\ inp.tb # None
    /\ Len(out.tb_list) = 3
    /\ out.tb_range[1].text # <<>>

\* C9: frame i of count has the corner glyph if i = count-1 and the branch
\* glyph otherwise, followed by i path segments: one frame of a rendered
\* trail, the last, has the corner glyph.
C9_Connector ==
    (out.done /\ inp.tb # None) =>
        LET count == Len(out.tb_list)
            glyph(k) == IF k = count THEN LINE_EDGE ELSE LINE_FORK
            lead(k, g) == self.indent \o g \o Repeat(LINE_PATH, k - 1) \o <<" ">>
        IN /\ \A k \in 1..count : StartsWith(out.tb_list[k], lead(k, glyph(k)))
           /\ count >= 1 =>
                 {k \in 1..count : StartsWith(out.tb_list[k], lead(k, LINE_EDGE))}
                     = {count}

C9_Witness ==
    /\ out.done
    /\ inp.tb # None
    /\ Len(out.tb_list) = 3
    /\ NO_UTF8

ColoredTitle(title, fg) ==
    <<ESC, "1", ";", "38;5;", fg, "m">> \o title \o <<RESET>>

C7_NoTrail ==
    (out.done /\ inp.tb = None) =>
        LET title == IF self.supports_ansi
                     THEN ColoredTitle(inp.title, self.color_error)
                     ELSE inp.title
            n == Len(inp.texts)
            body == Flatten([k \in 1..n |-> <<"\n">> \o self.indent \o inp.texts[k]])
        IN /\ out.msg = <<"\n", "\n">> \o self.indent \o title \o body \o <<"\n">>
           /\ ~Contains(out.msg, TracebackTitle)
           /\ CountOf({"\n"}, out.msg) = 3 + n

C7_Witness ==
    /\ out.done
    /\ inp.tb = None
    /\ Len(inp.texts) = 2
    /\ inp.texts[1] # inp.texts[2]
    /\ self.indent # <<>>

\* C10: the "Traceback:" section is in the output exactly when the trail
\* given is non-empty; when no frame is left to render the block is
\* "\n\n" + indent + header + "\n" + indent, with no frame line.
C10_SectionIffTrail ==
    out.done =>
        LET header == IF self.supports_ansi
                      THEN ColoredTitle(TracebackTitle, self.color_tb)
                      ELSE TracebackTitle
        IN /\ Contains(out.msg, TracebackTitle) <=> inp.tb # None
           /\ (inp.tb # None /\ Cardinality(KeptPositions) < 3) =>
                 /\ EndsWith(out.msg, <<"\n", "\n">> \o self.indent \o header
                                       \o <<"\n">> \o self.indent \o <<"\n">>)
                 /\ CountOf(FirstGlyphs, out.msg) = 0

\* every frame of the trail is excluded
C10_Witness ==
    /\ out.done
    /\ inp.tb # None
    /\ Len(inp.tb) >= 3
    /\ KeptPositions = {}

\* C6: with a base-path marker configured and "/" + name + "/" in the
\* frame's path, the rendered path is the part of the path after the
\* marker's last occurrence; with no marker, or a marker that is not in
\* the path, the path is rendered in full.
C6_PathShortening ==
    out.done =>
        LET path == inp.path
            m == self.tb_base
            rendered == IF self.supports_ansi
                        THEN <<ESC, "4", "m">> \o out.path \o <<RESET>>
                        ELSE out.path
            tail == IF out.i = out.count - 1
                    THEN _format_user_error(inp.text, out.i, inp.highlight)
                    ELSE <<>>
        IN /\ IF m # None /\ \E p \in 1..Len(path) : OccursAt(m, path, p)
              THEN \E p \in 1..Len(path) :
                      /\ OccursAt(m, path, p)
                      /\ \A q \in (p + 1)..Len(path) : ~OccursAt(m, path, q)
                      /\ out.path = SubSeq(path, p + Len(m), Len(path))
              ELSE out.path = path
           /\ EndsWith(out.line, <<" ", "i", "n", " ">> \o rendered \o tail)

\* the marker occurs twice in the path
C6_Witness ==
    /\ out.done
    /\ self.tb_base # None
    /\ Cardinality(Occurrences(self.tb_base, inp.path)) = 2
    /\ out.path = <<"a">>

\* the source text as the highlight sub-step returns it
RenderedText ==
    LET lead == 1 + Len(self.indent) + 2
                + (2 * out.i + 4) + (IF self.supports_ansi THEN 5 ELSE 0) + 1
    IN SubSeq(out.text, lead + 1, Len(out.text))

\* the wrapped parts of s: where each starts in the text without codes,
\* its opening code and what it wraps
RECURSIVE Wrapped(_, _)
Wrapped(s, pos) ==
    IF s = <<>> THEN {}
    ELSE IF Head(s) = ESC
         THEN LET m == IndexOf("m", s)
                  r == IndexOf(RESET, s)
              IN {[start |-> pos, code |-> SubSeq(s, 1, m),
                   body |-> SubSeq(s, m + 1, r - 1)]}
                 \cup Wrapped(SubSeq(s, r + 1, Len(s)), pos + (r - 1 - m))
         ELSE Wrapped(Tail(s), pos + 1)

WrappedStarts == {w.start : w \in Wrapped(RenderedText, 1)}

HighlightCode == <<ESC, "38;5;", self.color_highlight, "m">>

\* C4 as stated: with color and a highlight, every occurrence of the
\* highlight in the source text is wrapped in the highlight color, a text
\* with no occurrence is unchanged; without color or without a highlight
\* the text is unchanged.
C4_EveryOccurrenceWrapped ==
    out.done =>
        IF self.supports_ansi /\ inp.highlight # None
        THEN /\ Uncolored(RenderedText) = inp.text
             /\ \A p \in Occurrences(inp.highlight, inp.text) : p \in WrappedStarts
             /\ Occurrences(inp.highlight, inp.text) = {} => RenderedText = inp.text
        ELSE RenderedText = inp.text

\* C4, amended: with color and a non-empty highlight, the occurrences found
\* by a scan from the left that resumes after each occurrence found are
\* wrapped in the highlight color: every wrapped part is an occurrence, no
\* two overlap, and an occurrence that is not wrapped overlaps a wrapped
\* one that starts before it; the rest of the text is unchanged. Without
\* color or highlight the text is unchanged.
C4_ScannedOccurrencesWrapped ==
    out.done =>
        IF self.supports_ansi /\ inp.highlight # None
        THEN LET h == inp.highlight
                 occ == Occurrences(h, inp.text)
             IN /\ Uncolored(RenderedText) = inp.text
                /\ \A w \in Wrapped(RenderedText, 1) :
                      w.body = h /\ w.code = HighlightCode /\ w.start \in occ
                /\ \A p \in WrappedStarts : \A q \in WrappedStarts :
                      p < q => p + Len(h) <= q
                /\ \A p \in occ \ WrappedStarts :
                      \E q \in WrappedStarts : q < p /\ p < q + Len(h)
                /\ occ = {} => RenderedText = inp.text
        ELSE RenderedText = inp.text

\* two occurrences that do not overlap, both wrapped
C4_Witness ==
    /\ out.done
    /\ self.supports_ansi
    /\ inp.highlight = <<"a", "b">>
    /\ inp.text = <<"a", "b", "a", "b">>
    /\ WrappedStarts = {1, 3}

\* C8: calls with identical arguments return identical strings, whatever
\* was called before, whatever the other thread does and whatever the
\* terminal supports by the time of the call.
C8_SameArgumentsSameOutput ==
    \A a \in seen : \A b \in seen :
        a.request = b.request => a.msg = b.msg

\* the same request was answered with the terminal in both conditions
C8_Witness ==
    \E a \in seen : \E b \in seen :
        /\ a.request = b.request
        /\ a.terminal # b.terminal
        /\ a.request.tb # None

====
